---- MODULE Spec2Model ----
(***************************************************************************)
(* Habit tracker: the streak and ISO-week engine of HabitAnalyzer          *)
(* (src/src/analytics.py).                                                 *)
(*                                                                         *)
(* A date string 'YYYY-MM-DD' is the triple <<year, month, day>> of its    *)
(* three fields; it need not name a calendar date (<<2025, 1, 32>>).       *)
(* datetime.strptime turns a string into a date value, the record          *)
(* [year, month, day], or raises ValueError.  Date arithmetic goes through *)
(* the proleptic Gregorian ordinal, as datetime does.                      *)
(*                                                                         *)
(* The store, HabitTrackerDB (src/src/database.py), is its two SQLite      *)
(* tables, each the sequence of its rows in rowid order.                   *)
(***************************************************************************)
EXTENDS Integers, Sequences, FiniteSets, TLC

VARIABLES
    date1,           \* first argument of a two-date call
    date2,           \* second argument of a two-date call
    date_list,       \* the list argument of a streak calculator
    pc,              \* "ready", or the name of the function that has returned
    result,          \* the value that function returned
    i,               \* loop index of the stepwise longest-weekly scan
    current_streak,  \* running streak of the stepwise scan
    max_streak,      \* running maximum of the stepwise scan
    habit,           \* table habit of the store, rows in rowid order
    habit_completions,      \* table habit_completions, rows in rowid order
    habit_completions_list, \* the list argument of a ranking function
    arg,             \* the argument of the last call on the store
    outcome,         \* how that call ended: the type of the value it returned,
                     \* or the exception it raised
    habit_db,        \* the store the UserInterface holds (self.habit_db)
    default_habit,   \* table habit as the default store of Habit reads it
    written,         \* the store the last operation of the UserInterface
                     \* wrote a habit through
    main_pc,         \* where main is
    connection,      \* connection of the store main constructed
    close_calls,     \* calls of close on that store
    raised           \* the exception that ended run

ui_vars == <<habit_db, default_habit, written, main_pc, connection, close_calls,
            raised>>

store_vars == <<habit, habit_completions, habit_completions_list, arg, outcome,
                ui_vars>>

vars == <<date1, date2, date_list, pc, result, i, current_streak, max_streak,
          habit, habit_completions, habit_completions_list, arg, outcome,
          habit_db, default_habit, written, main_pc, connection, close_calls,
          raised>>

(***************************************************************************)
(* datetime: the calendar                                                  *)
(***************************************************************************)
is_leap(year) == year % 4 = 0 /\ (year % 100 # 0 \/ year % 400 = 0)

days_in_month(year, month) ==
    IF month = 2 THEN (IF is_leap(year) THEN 29 ELSE 28)
    ELSE IF month \in {4, 6, 9, 11} THEN 30 ELSE 31

RECURSIVE days_before_month(_, _)
days_before_month(year, month) ==
    IF month <= 1 THEN 0
    ELSE days_before_month(year, month - 1) + days_in_month(year, month - 1)

days_before_year(year) ==
    LET y == year - 1 IN y * 365 + (y \div 4) - (y \div 100) + (y \div 400)

ymd2ord(year, month, day) ==
    days_before_year(year) + days_before_month(year, month) + day

\* datetime.strptime(s, '%Y-%m-%d') raises ValueError unless s names a date.
strptime_raises(s) ==
    ~(/\ s[1] \in 1..9999
      /\ s[2] \in 1..12
      /\ s[3] \in 1..days_in_month(s[1], s[2]))

\* The date value datetime.strptime(s, '%Y-%m-%d') returns when it does not raise.
strptime(s) == [year |-> s[1], month |-> s[2], day |-> s[3]]

toordinal(d) == ymd2ord(d.year, d.month, d.day)

\* d1 - d2 of two dates, in days (a timedelta).
date_sub(d1, d2) == toordinal(d1) - toordinal(d2)

\* d1 > d2 of two dates: the comparison of (year, month, day).
date_gt(d1, d2) ==
    \/ d1.year > d2.year
    \/ d1.year = d2.year /\ d1.month > d2.month
    \/ d1.year = d2.year /\ d1.month = d2.month /\ d1.day > d2.day

\* Ordinal of the Monday that starts ISO week 1 of a year.
isoweek1monday(year) ==
    LET firstday == ymd2ord(year, 1, 1)
        firstweekday == (firstday + 6) % 7
        week1monday == firstday - firstweekday
    IN IF firstweekday > 3 THEN week1monday + 7 ELSE week1monday

\* date.isocalendar(): <<ISO year, ISO week number, ISO weekday>>.
isocalendar(d) ==
    LET today == toordinal(d)
        w0 == (today - isoweek1monday(d.year)) \div 7
        d0 == (today - isoweek1monday(d.year)) % 7
    IN IF w0 < 0
         THEN LET m == isoweek1monday(d.year - 1)
              IN <<d.year - 1, ((today - m) \div 7) + 1, ((today - m) % 7) + 1>>
       ELSE IF w0 >= 52 /\ today >= isoweek1monday(d.year + 1)
         THEN <<d.year + 1, 1, d0 + 1>>
       ELSE <<d.year, w0 + 1, d0 + 1>>

(***************************************************************************)
(* HabitAnalyzer: the ISO-week predicates                                  *)
(***************************************************************************)
\* Mutant of consecutive_weeks_of_dates: the arguments are not put in order.
consecutive_weeks_of_dates_unordered(a, b) ==
    LET year1 == isocalendar(a)[1]
        week1 == isocalendar(a)[2]
        year2 == isocalendar(b)[1]
        week2 == isocalendar(b)[2]
    IN IF year1 = year2 THEN week2 - week1 = 1
       ELSE IF year2 - year1 = 1
         THEN LET last_week_of_year1 ==
                      isocalendar([year |-> year1, month |-> 12, day |-> 28])[2]
              IN week1 = last_week_of_year1 /\ week2 = 1
       ELSE FALSE

\* Mutant of consecutive_weeks_of_dates: within one ISO year a week difference
\* of at most one counts, so two dates of one week count as well.
consecutive_weeks_of_dates_at_most_one(a, b) ==
    LET d1 == IF date_gt(a, b) THEN b ELSE a
        d2 == IF date_gt(a, b) THEN a ELSE b
        year1 == isocalendar(d1)[1]
        week1 == isocalendar(d1)[2]
        year2 == isocalendar(d2)[1]
        week2 == isocalendar(d2)[2]
    IN IF year1 = year2 THEN week2 - week1 <= 1
       ELSE IF year2 - year1 = 1
         THEN LET last_week_of_year1 ==
                      isocalendar([year |-> year1, month |-> 12, day |-> 28])[2]
              IN week1 = last_week_of_year1 /\ week2 = 1
       ELSE FALSE

\* The body of are_dates_in_consecutive_weeks once both arguments are dates.
consecutive_weeks_of_dates(a, b) ==
    LET d1 == IF date_gt(a, b) THEN b ELSE a
        d2 == IF date_gt(a, b) THEN a ELSE b
        year1 == isocalendar(d1)[1]
        week1 == isocalendar(d1)[2]
        year2 == isocalendar(d2)[1]
        week2 == isocalendar(d2)[2]
    IN IF year1 = year2 THEN week2 - week1 = 1
       ELSE IF year2 - year1 = 1
         THEN LET last_week_of_year1 ==
                      isocalendar([year |-> year1, month |-> 12, day |-> 28])[2]
              IN week1 = last_week_of_year1 /\ week2 = 1
       ELSE FALSE

are_dates_in_consecutive_weeks(s1, s2) ==
    IF strptime_raises(s1) \/ strptime_raises(s2) THEN FALSE
    ELSE consecutive_weeks_of_dates(strptime(s1), strptime(s2))

\* Mutant of are_in_same_week: the calendar year is compared, not the ISO year.
are_in_same_week_calendar_year(date1_str, date2_str) ==
    IF strptime_raises(date1_str) \/ strptime_raises(date2_str) THEN "None"
    ELSE LET d1 == strptime(date1_str)
             d2 == strptime(date2_str)
             week1 == isocalendar(d1)[2]
             week2 == isocalendar(d2)[2]
         IN IF week1 = week2 /\ d1.year = d2.year THEN "True" ELSE "False"

\* Returns True, False or None: "True", "False", "None".
are_in_same_week(date1_str, date2_str) ==
    IF strptime_raises(date1_str) \/ strptime_raises(date2_str) THEN "None"
    ELSE LET d1 == strptime(date1_str)
             d2 == strptime(date2_str)
             week1 == isocalendar(d1)[2]
             year1 == isocalendar(d1)[1]
             week2 == isocalendar(d2)[2]
             year2 == isocalendar(d2)[1]
         IN IF week1 = week2 /\ year1 = year2 THEN "True" ELSE "False"

\* Python's truth value of what are_in_same_week returns (None is false).
truthy(v) == v = "True"

(***************************************************************************)
(* HabitAnalyzer: the four streak calculators                              *)
(***************************************************************************)
any_raises(l) == \E k \in 1..Len(l) : strptime_raises(l[k])

\* Mutant of current_daily_loop: a pair that is not one day apart is passed over
\* and the scan goes on.
RECURSIVE current_daily_loop_no_break(_, _, _)
current_daily_loop_no_break(l, k, streak) ==
    IF k > Len(l) THEN streak
    ELSE IF date_sub(strptime(l[k - 1]), strptime(l[k])) = 1
      THEN current_daily_loop_no_break(l, k + 1, streak + 1)
    ELSE current_daily_loop_no_break(l, k + 1, streak)

\* Mutant of current_daily_loop: the difference is taken the other way round.
RECURSIVE current_daily_loop_ascending(_, _, _)
current_daily_loop_ascending(l, k, streak) ==
    IF k > Len(l) THEN streak
    ELSE IF date_sub(strptime(l[k]), strptime(l[k - 1])) = 1
      THEN current_daily_loop_ascending(l, k + 1, streak + 1)
    ELSE streak

\* The for loop of calculate_current_streak_for_daily_habit from pair (k-1, k) on.
RECURSIVE current_daily_loop(_, _, _)
current_daily_loop(l, k, streak) ==
    IF k > Len(l) THEN streak
    ELSE IF date_sub(strptime(l[k - 1]), strptime(l[k])) = 1
      THEN current_daily_loop(l, k + 1, streak + 1)
    ELSE streak

calculate_current_streak_for_daily_habit(l) ==
    IF any_raises(l) THEN 0 ELSE current_daily_loop(l, 2, 1)

\* Mutant of current_weekly_loop: a pair in the same ISO week ends the scan.
RECURSIVE current_weekly_loop_same_week_breaks(_, _, _)
current_weekly_loop_same_week_breaks(l, k, streak) ==
    IF k > Len(l) THEN streak
    ELSE IF are_dates_in_consecutive_weeks(l[k - 1], l[k])
      THEN current_weekly_loop_same_week_breaks(l, k + 1, streak + 1)
    ELSE streak

\* The for loop of calculate_current_streak_for_weekly_habit from pair (k-1, k) on.
RECURSIVE current_weekly_loop(_, _, _)
current_weekly_loop(l, k, streak) ==
    IF k > Len(l) THEN streak
    ELSE IF are_dates_in_consecutive_weeks(l[k - 1], l[k])
      THEN current_weekly_loop(l, k + 1, streak + 1)
    ELSE IF truthy(are_in_same_week(l[k - 1], l[k]))
      THEN current_weekly_loop(l, k + 1, streak)
    ELSE streak

\* Mutant of calculate_current_streak_for_weekly_habit: the streak starts at 0.
calculate_current_streak_for_weekly_habit_from_zero(l) ==
    current_weekly_loop(l, 2, 0)

calculate_current_streak_for_weekly_habit(l) == current_weekly_loop(l, 2, 1)

max2(a, b) == IF a >= b THEN a ELSE b

\* One iteration of the loop of calculate_longest_streak_for_daily_habit on the
\* parsed pair (prev, cur); st is [current_streak, max_streak].
longest_daily_body(st, prev, cur) ==
    IF date_sub(cur, prev) = 1
      THEN [current_streak |-> st.current_streak + 1, max_streak |-> st.max_streak]
    ELSE [current_streak |-> 1,
          max_streak |-> max2(st.max_streak, st.current_streak)]

RECURSIVE longest_daily_loop(_, _, _)
longest_daily_loop(l, k, st) ==
    IF k > Len(l) THEN st
    ELSE longest_daily_loop(l, k + 1,
             longest_daily_body(st, strptime(l[k - 1]), strptime(l[k])))

\* Mutant of calculate_longest_streak_for_daily_habit: no comparison after the loop.
calculate_longest_streak_for_daily_habit_no_final(l) ==
    IF any_raises(l) THEN 0
    ELSE longest_daily_loop(l, 2, [current_streak |-> 1, max_streak |-> 1]).max_streak

calculate_longest_streak_for_daily_habit(l) ==
    IF any_raises(l) THEN 0
    ELSE LET st == longest_daily_loop(l, 2, [current_streak |-> 1, max_streak |-> 1])
         IN max2(st.max_streak, st.current_streak)

\* Mutant of longest_weekly_body: a gap always records the running streak and
\* resets it to 1, as the daily calculator does.
longest_weekly_body_always_reset(st, prev, cur) ==
    IF are_dates_in_consecutive_weeks(cur, prev)
      THEN [current_streak |-> st.current_streak + 1, max_streak |-> st.max_streak]
    ELSE IF truthy(are_in_same_week(cur, prev))
      THEN st
    ELSE [current_streak |-> 1,
          max_streak |-> max2(st.max_streak, st.current_streak)]

\* One iteration of the loop of calculate_longest_streak_for_weekly_habit on the
\* pair of strings (prev, cur); st is [current_streak, max_streak].
longest_weekly_body(st, prev, cur) ==
    IF are_dates_in_consecutive_weeks(cur, prev)
      THEN [current_streak |-> st.current_streak + 1, max_streak |-> st.max_streak]
    ELSE IF truthy(are_in_same_week(cur, prev))
      THEN st
    ELSE IF st.current_streak > st.max_streak
      THEN [current_streak |-> 1, max_streak |-> st.current_streak]
    ELSE st

\* Mutant of longest_weekly_return: no comparison after the loop.
longest_weekly_return_no_final(st) == st.max_streak

\* The statements after the loop: the final comparison and the return value.
longest_weekly_return(st) ==
    IF st.current_streak > st.max_streak THEN st.current_streak ELSE st.max_streak

RECURSIVE longest_weekly_loop(_, _, _)
longest_weekly_loop(l, k, st) ==
    IF k > Len(l) THEN st
    ELSE longest_weekly_loop(l, k + 1, longest_weekly_body(st, l[k - 1], l[k]))

calculate_longest_streak_for_weekly_habit(l) ==
    longest_weekly_return(
        longest_weekly_loop(l, 2, [current_streak |-> 1, max_streak |-> 1]))

(***************************************************************************)
(* HabitAnalyzer: sort_dates_descending                                    *)
(***************************************************************************)
\* Mutant of insert_descending: reverse=True is dropped, x goes behind every
\* entry of r, now ascending, that is not later than x.
insert_ascending(r, x) ==
    LET p == Cardinality({ k \in 1..Len(r) :
                             ~date_gt(strptime(r[k]), strptime(x)) })
    IN SubSeq(r, 1, p) \o <<x>> \o SubSeq(r, p + 1, Len(r))

\* Where sorted(..., reverse=True) puts x in a list r that is already in
\* descending order of date: behind every entry that is not earlier than x, so
\* that entries of equal date keep the order they came in.
insert_descending(r, x) ==
    LET p == Cardinality({ k \in 1..Len(r) :
                             ~date_gt(strptime(x), strptime(r[k])) })
    IN SubSeq(r, 1, p) \o <<x>> \o SubSeq(r, p + 1, Len(r))

RECURSIVE sorted_by_date_reverse(_, _, _)
sorted_by_date_reverse(l, k, r) ==
    IF k > Len(l) THEN r
    ELSE sorted_by_date_reverse(l, k + 1, insert_descending(r, l[k]))

\* Mutant of sort_dates_descending: an entry that does not parse is left out
\* and the rest is sorted.
sort_dates_descending_skip_invalid(l) ==
    sorted_by_date_reverse(SelectSeq(l, LAMBDA s : ~strptime_raises(s)), 1, <<>>)

\* The key function parses every entry before anything is ordered; ValueError
\* is caught and the empty list returned.
sort_dates_descending(l) ==
    IF any_raises(l) THEN <<>> ELSE sorted_by_date_reverse(l, 1, <<>>)

(***************************************************************************)
(* HabitAnalyzer: the two rankings of (habit name, number) pairs           *)
(***************************************************************************)
\* Mutant of insert_by_number_reverse: x goes in front of the entries with the
\* same number.
insert_by_number_before_ties(r, x) ==
    LET p == Cardinality({ k \in 1..Len(r) : r[k][2] > x[2] })
    IN SubSeq(r, 1, p) \o <<x>> \o SubSeq(r, p + 1, Len(r))

\* Where sorted(..., key=lambda x: x[1], reverse=True) puts x in a list r
\* already ordered: behind every entry whose number is not smaller.
insert_by_number_reverse(r, x) ==
    LET p == Cardinality({ k \in 1..Len(r) : r[k][2] >= x[2] })
    IN SubSeq(r, 1, p) \o <<x>> \o SubSeq(r, p + 1, Len(r))

RECURSIVE sorted_by_number_reverse(_, _, _)
sorted_by_number_reverse(l, k, r) ==
    IF k > Len(l) THEN r
    ELSE sorted_by_number_reverse(l, k + 1, insert_by_number_reverse(r, l[k]))

sort_habits_by_count(l) == sorted_by_number_reverse(l, 1, <<>>)

sort_habits_by_max_streak(l) == sorted_by_number_reverse(l, 1, <<>>)

(***************************************************************************)
(* Inputs                                                                  *)
(***************************************************************************)
MaxLen == 6      \* longest sorted completion list
MaxAnyLen == 3   \* longest list in arbitrary order

\* Date strings for the two-date predicates: every day of January and December
\* of 2020 (53 ISO weeks), 2021, 2024 and 2025, and three that name no date.
PairPool ==
    ({2020, 2021, 2024, 2025} \X {1, 12} \X (1..31))
        \cup {<<2025, 2, 29>>, <<2024, 13, 1>>, <<2025, 1, 0>>}

\* Date strings for completion lists: ISO week 9 of 2024 across the leap day,
\* ISO weeks 50, 51, 52 of 2024 and 1 to 5 of 2025 with a run of six days across
\* the turn of the year, and one string that names no date.
ListPool ==
    { <<2024, 2, 28>>, <<2024, 2, 29>>, <<2024, 3, 1>>,
      <<2024, 12, 11>>, <<2024, 12, 18>>,
      <<2024, 12, 28>>, <<2024, 12, 29>>, <<2024, 12, 30>>, <<2024, 12, 31>>,
      <<2025, 1, 1>>, <<2025, 1, 2>>,
      <<2025, 1, 8>>, <<2025, 1, 15>>, <<2025, 1, 22>>, <<2025, 1, 29>>,
      <<2025, 1, 32>> }

AnyPool ==
    { <<2024, 12, 18>>, <<2024, 12, 28>>, <<2024, 12, 29>>, <<2024, 12, 30>>,
      <<2024, 12, 31>>, <<2025, 1, 1>>, <<2025, 1, 8>>, <<2025, 1, 32>> }

\* s < t of two date strings (character by character, fields zero-padded).
str_lt(s, t) ==
    \/ s[1] < t[1]
    \/ s[1] = t[1] /\ s[2] < t[2]
    \/ s[1] = t[1] /\ s[2] = t[2] /\ s[3] < t[3]

\* sorted(...) of a collection of distinct strings.
RECURSIVE sorted(_)
sorted(S) ==
    IF S = {} THEN <<>>
    ELSE LET m == CHOOSE x \in S : \A y \in S : ~str_lt(y, x)
         IN <<m>> \o sorted(S \ {m})

reversed(l) == [k \in 1..Len(l) |-> l[Len(l) + 1 - k]]

AscendingLists ==
    { sorted(S) : S \in {T \in SUBSET ListPool : Cardinality(T) <= MaxLen} }

SortedLists == AscendingLists \cup { reversed(l) : l \in AscendingLists }

AnyLists == UNION { [1..n -> AnyPool] : n \in 0..MaxAnyLen }

\* No UserInterface is constructed and main is not running.
NoUI ==
    /\ habit_db = "None"
    /\ default_habit = <<>>
    /\ written = "None"
    /\ main_pc = "None"
    /\ connection = "None"
    /\ close_calls = 0
    /\ raised = "None"

\* No store is attached: the tables are empty and no call on it has been made.
NoStore ==
    /\ NoUI
    /\ habit = <<>>
    /\ habit_completions = <<>>
    /\ habit_completions_list = <<>>
    /\ arg = "None"
    /\ outcome = "None"

(***************************************************************************)
(* Calls of the two-date predicates                                        *)
(***************************************************************************)
InitPair ==
    /\ date1 \in PairPool
    /\ date2 \in PairPool
    /\ date_list = <<date1, date2>>
    /\ pc = "ready"
    /\ result = "None"
    /\ i = 0
    /\ current_streak = 0
    /\ max_streak = 0
    /\ NoStore

Call_are_dates_in_consecutive_weeks ==
    /\ pc = "ready"
    /\ pc' = "are_dates_in_consecutive_weeks"
    /\ result' = are_dates_in_consecutive_weeks(date1, date2)
    /\ UNCHANGED <<date1, date2, date_list, i, current_streak, max_streak>>
    /\ UNCHANGED store_vars

Call_are_in_same_week ==
    /\ pc = "ready"
    /\ pc' = "are_in_same_week"
    /\ result' = are_in_same_week(date1, date2)
    /\ UNCHANGED <<date1, date2, date_list, i, current_streak, max_streak>>
    /\ UNCHANGED store_vars

Call_sort_dates_descending ==
    /\ pc = "ready"
    /\ pc' = "sort_dates_descending"
    /\ result' = sort_dates_descending(date_list)
    /\ UNCHANGED <<date1, date2, date_list, i, current_streak, max_streak>>
    /\ UNCHANGED store_vars

NextPair ==
    \/ Call_are_dates_in_consecutive_weeks
    \/ Call_are_in_same_week
    \/ Call_sort_dates_descending

SpecPair == InitPair /\ [][NextPair]_vars

(***************************************************************************)
(* Calls of the streak calculators                                         *)
(***************************************************************************)
InitStreak ==
    /\ date_list \in SortedLists \cup AnyLists
    /\ date1 = <<>>
    /\ date2 = <<>>
    /\ pc = "ready"
    /\ result = "None"
    /\ i = 0
    /\ current_streak = 0
    /\ max_streak = 0
    /\ NoStore

Call_calculate_current_streak_for_daily_habit ==
    /\ pc = "ready"
    /\ pc' = "calculate_current_streak_for_daily_habit"
    /\ result' = calculate_current_streak_for_daily_habit(date_list)
    /\ UNCHANGED <<date1, date2, date_list, i, current_streak, max_streak>>
    /\ UNCHANGED store_vars

Call_calculate_current_streak_for_weekly_habit ==
    /\ pc = "ready"
    /\ pc' = "calculate_current_streak_for_weekly_habit"
    /\ result' = calculate_current_streak_for_weekly_habit(date_list)
    /\ UNCHANGED <<date1, date2, date_list, i, current_streak, max_streak>>
    /\ UNCHANGED store_vars

Call_calculate_longest_streak_for_daily_habit ==
    /\ pc = "ready"
    /\ pc' = "calculate_longest_streak_for_daily_habit"
    /\ result' = calculate_longest_streak_for_daily_habit(date_list)
    /\ UNCHANGED <<date1, date2, date_list, i, current_streak, max_streak>>
    /\ UNCHANGED store_vars

Call_calculate_longest_streak_for_weekly_habit ==
    /\ pc = "ready"
    /\ pc' = "calculate_longest_streak_for_weekly_habit"
    /\ result' = calculate_longest_streak_for_weekly_habit(date_list)
    /\ UNCHANGED <<date1, date2, date_list, i, current_streak, max_streak>>
    /\ UNCHANGED store_vars

NextStreak ==
    \/ Call_calculate_current_streak_for_daily_habit
    \/ Call_calculate_current_streak_for_weekly_habit
    \/ Call_calculate_longest_streak_for_daily_habit
    \/ Call_calculate_longest_streak_for_weekly_habit
    \/ Call_sort_dates_descending

SpecStreak == InitStreak /\ [][NextStreak]_vars

(***************************************************************************)
(* calculate_longest_streak_for_weekly_habit, one loop iteration at a time *)
(***************************************************************************)
\* i is the Python loop index: the pair examined is (list[i-1], list[i]),
\* that is, elements i and i+1 counting from 1.
InitScan ==
    /\ date_list \in AscendingLists \cup AnyLists
    /\ date1 = <<>>
    /\ date2 = <<>>
    /\ pc = "loop"
    /\ result = "None"
    /\ i = 1
    /\ current_streak = 1
    /\ max_streak = 1
    /\ NoStore

ScanIteration ==
    /\ pc = "loop"
    /\ i < Len(date_list)
    /\ LET st == longest_weekly_body(
                     [current_streak |-> current_streak, max_streak |-> max_streak],
                     date_list[i], date_list[i + 1])
       IN /\ current_streak' = st.current_streak
          /\ max_streak' = st.max_streak
    /\ i' = i + 1
    /\ UNCHANGED <<date1, date2, date_list, pc, result>>
    /\ UNCHANGED store_vars

ScanReturn ==
    /\ pc = "loop"
    /\ i >= Len(date_list)
    /\ pc' = "calculate_longest_streak_for_weekly_habit"
    /\ result' = longest_weekly_return(
                     [current_streak |-> current_streak, max_streak |-> max_streak])
    /\ max_streak' = result'
    /\ UNCHANGED <<date1, date2, date_list, i, current_streak>>
    /\ UNCHANGED store_vars

NextScan ==
    \/ ScanIteration
    \/ ScanReturn

SpecScan == InitScan /\ [][NextScan]_vars

(***************************************************************************)
(* Calls of the two rankings                                               *)
(***************************************************************************)
MaxRankLen == 3   \* longest list of pairs handed to a ranking

RankNames == {"read", "run", "walk"}
RankNumbers == 0..2

RankLists == UNION { [1..n -> RankNames \X RankNumbers] : n \in 0..MaxRankLen }

InitRank ==
    /\ habit_completions_list \in RankLists
    /\ habit = <<>>
    /\ habit_completions = <<>>
    /\ arg = "None"
    /\ outcome = "None"
    /\ date1 = <<>>
    /\ date2 = <<>>
    /\ date_list = <<>>
    /\ pc = "ready"
    /\ result = "None"
    /\ i = 0
    /\ current_streak = 0
    /\ max_streak = 0
    /\ NoUI

Call_sort_habits_by_count ==
    /\ pc = "ready"
    /\ pc' = "sort_habits_by_count"
    /\ result' = sort_habits_by_count(habit_completions_list)
    /\ UNCHANGED <<date1, date2, date_list, i, current_streak, max_streak>>
    /\ UNCHANGED store_vars

Call_sort_habits_by_max_streak ==
    /\ pc = "ready"
    /\ pc' = "sort_habits_by_max_streak"
    /\ result' = sort_habits_by_max_streak(habit_completions_list)
    /\ UNCHANGED <<date1, date2, date_list, i, current_streak, max_streak>>
    /\ UNCHANGED store_vars

NextRank ==
    \/ Call_sort_habits_by_count
    \/ Call_sort_habits_by_max_streak

SpecRank == InitRank /\ [][NextRank]_vars

(***************************************************************************)
(* HabitTrackerDB: the two tables (src/src/database.py)                    *)
(***************************************************************************)
\* A row of habit is [name, description, periodicity, creation_date,
\* creation_time]; a row of habit_completions is [habit_name, completion_date].
\* A Habit object has the fields of a habit row.  Every method below returns
\* None; sqlite3.IntegrityError is caught in _execute_query.

\* Mutant of insert_habit: the table has no UNIQUE constraint on name.
insert_habit_not_unique(h) ==
    Append(habit, h)

\* INSERT INTO habit: name is UNIQUE, a second row of that name is refused.
insert_habit(h) ==
    IF \E k \in 1..Len(habit) : habit[k].name = h.name
      THEN habit
    ELSE Append(habit, h)

\* UPDATE habit SET description = ?, periodicity = ? WHERE name = ?
update_habit(h) ==
    [k \in 1..Len(habit) |->
        IF habit[k].name = h.name
          THEN [habit[k] EXCEPT !.description = h.description,
                                !.periodicity = h.periodicity]
        ELSE habit[k]]

\* DELETE FROM habit WHERE name = ?   (habit_completions is not touched)
delete_habit(habit_name) ==
    SelectSeq(habit, LAMBDA row : row.name # habit_name)

\* Mutant of insert_tracking_record: the table has no UNIQUE constraint on
\* (habit_name, completion_date).
insert_tracking_record_not_unique(habit_name, completion_date) ==
    Append(habit_completions,
           [habit_name |-> habit_name, completion_date |-> completion_date])

\* INSERT INTO habit_completions: (habit_name, completion_date) is UNIQUE.  The
\* connection does not switch foreign keys on, so habit_name is not looked up
\* in habit.
insert_tracking_record(habit_name, completion_date) ==
    IF \E k \in 1..Len(habit_completions) :
           /\ habit_completions[k].habit_name = habit_name
           /\ habit_completions[k].completion_date = completion_date
      THEN habit_completions
    ELSE Append(habit_completions,
                [habit_name |-> habit_name, completion_date |-> completion_date])

\* DELETE FROM habit_completions WHERE habit_name = ?
delete_tracking_records_of_habit(habit_name) ==
    SelectSeq(habit_completions, LAMBDA row : row.habit_name # habit_name)

\* Habit names in the order of the index SQLite keeps for UNIQUE(name).
HabitNames == <<"read", "run">>

\* SELECT name FROM habit: SQLite answers it from the index on name, so the
\* names come in index order, not in rowid order.
RECURSIVE names_from_index(_)
names_from_index(k) ==
    IF k > Len(HabitNames) THEN <<>>
    ELSE LET rows == SelectSeq(habit, LAMBDA row : row.name = HabitNames[k])
         IN [j \in 1..Len(rows) |-> rows[j].name] \o names_from_index(k + 1)

get_all_habits_name == names_from_index(1)

\* SELECT periodicity FROM habit WHERE name = ?, fetchone(); the string "None"
\* stands for None (no such row).
get_habit_periodicity(habit_name) ==
    LET rows == SelectSeq(habit, LAMBDA row : row.name = habit_name)
    IN IF rows = <<>> THEN "None" ELSE rows[1].periodicity

\* Where x goes in a list r of strings in ascending order, behind its equals.
insert_string(r, x) ==
    LET p == Cardinality({ k \in 1..Len(r) : ~str_lt(x, r[k]) })
    IN SubSeq(r, 1, p) \o <<x>> \o SubSeq(r, p + 1, Len(r))

\* sorted(l) of a list of strings.
RECURSIVE sorted_list(_, _, _)
sorted_list(l, k, r) ==
    IF k > Len(l) THEN r ELSE sorted_list(l, k + 1, insert_string(r, l[k]))

\* SELECT completion_date FROM habit_completions WHERE habit_name = ?: SQLite
\* answers it from the index on (habit_name, completion_date), so the dates
\* come in ascending order of the string.  The empty sequence stands for the
\* None the method returns when there is no row.
get_completion_dates_of_habit(habit_name) ==
    LET rows == SelectSeq(habit_completions,
                          LAMBDA row : row.habit_name = habit_name)
    IN sorted_list([k \in 1..Len(rows) |-> rows[k].completion_date], 1, <<>>)

\* date.isoformat()
isoformat(d) == <<d.year, d.month, d.day>>

\* d - timedelta(days=1)
minus_one_day(d) ==
    IF d.day > 1 THEN [d EXCEPT !.day = d.day - 1]
    ELSE IF d.month > 1
      THEN [d EXCEPT !.month = d.month - 1,
                     !.day = days_in_month(d.year, d.month - 1)]
    ELSE [year |-> d.year - 1, month |-> 12, day |-> 31]

last_day_of_last_month(today) == minus_one_day([today EXCEPT !.day = 1])

\* Mutant of first_day_of_last_month: the day of today is kept.
first_day_of_last_month_same_day(today) ==
    [last_day_of_last_month(today) EXCEPT !.day = today.day]

first_day_of_last_month(today) == [last_day_of_last_month(today) EXCEPT !.day = 1]

\* x BETWEEN a AND b of three strings.
between(x, a, b) == ~str_lt(x, a) /\ ~str_lt(b, x)

\* SELECT habit_name, completion_date FROM habit_completions WHERE
\* completion_date BETWEEN ? AND ?: a scan of the table, rows in rowid order.
\* today is datetime.today().date().  The empty sequence stands for the None
\* the method returns when there is no row.
get_habit_completions_last_month(today) ==
    SelectSeq(habit_completions,
              LAMBDA row : between(row.completion_date,
                                   isoformat(first_day_of_last_month(today)),
                                   isoformat(last_day_of_last_month(today))))

(***************************************************************************)
(* HabitAnalyzer on the store                                              *)
(***************************************************************************)
\* What a call comes to is the record [outcome, value]: outcome is the type of
\* the value returned ("int", "list", "NoneType") or the exception that leaves
\* the function ("TypeError"); value is the value returned, "None" for None
\* and for an exception.
returns_int(n) == [outcome |-> "int", value |-> n]
returns_list(l) == [outcome |-> "list", value |-> l]
returns_None == [outcome |-> "NoneType", value |-> "None"]
raises(e) == [outcome |-> e, value |-> "None"]

\* None when the store has no habit; the empty sequence stands for None.
list_habit_names == get_all_habits_name

\* None when the habit has no completion; the empty sequence stands for None.
list_completion_dates_of_habit(habit_name) ==
    get_completion_dates_of_habit(habit_name)

\* sort_dates_descending(None) is sorted(None, ...): TypeError, which the
\* function's except ValueError does not catch and this function has no try.
\* With another periodicity than the two, control runs off the end.
get_current_streak_for_habit(habit_name) ==
    LET periodicity_str == get_habit_periodicity(habit_name)
        l == list_completion_dates_of_habit(habit_name)
    IN IF l = <<>> THEN raises("TypeError")
       ELSE IF periodicity_str = "daily"
         THEN returns_int(calculate_current_streak_for_daily_habit(
                              sort_dates_descending(l)))
       ELSE IF periodicity_str = "weekly"
         THEN returns_int(calculate_current_streak_for_weekly_habit(
                              sort_dates_descending(l)))
       ELSE returns_None

\* Mutant of get_longest_streak_for_given_habit: the habit's periodicity is
\* looked at before its completions.
get_longest_streak_for_given_habit_periodicity_first(habit_name) ==
    LET periodicity_str == get_habit_periodicity(habit_name)
        l == list_completion_dates_of_habit(habit_name)
    IN IF periodicity_str = "daily"
         THEN returns_int(calculate_longest_streak_for_daily_habit(
                              sorted_list(l, 1, <<>>)))
       ELSE IF periodicity_str = "weekly"
         THEN returns_int(calculate_longest_streak_for_weekly_habit(
                              sorted_list(l, 1, <<>>)))
       ELSE IF l = <<>> THEN returns_int(0)
       ELSE returns_None

\* With completions and another periodicity than the two, control runs off
\* the end of the inner if/elif.
get_longest_streak_for_given_habit(habit_name) ==
    LET periodicity_str == get_habit_periodicity(habit_name)
        l == list_completion_dates_of_habit(habit_name)
    IN IF l # <<>>
         THEN IF periodicity_str = "daily"
                THEN returns_int(calculate_longest_streak_for_daily_habit(
                                     sorted_list(l, 1, <<>>)))
              ELSE IF periodicity_str = "weekly"
                THEN returns_int(calculate_longest_streak_for_weekly_habit(
                                     sorted_list(l, 1, <<>>)))
              ELSE returns_None
       ELSE returns_int(0)

\* The list comprehension pairs every name with its longest streak; sorted()
\* compares the second components as soon as there are two pairs, and None
\* compared with anything is TypeError, which except Exception turns into the
\* return value 0.
calculate_longest_run_streak_of_all_defined_habits ==
    LET habits == list_habit_names
        longest == [k \in 1..Len(habits) |->
                       get_longest_streak_for_given_habit(habits[k])]
    IN IF habits = <<>> THEN returns_None
       ELSE IF /\ Len(habits) >= 2
               /\ \E k \in 1..Len(habits) : longest[k].outcome = "NoneType"
         THEN returns_int(0)
       ELSE returns_list(sort_habits_by_max_streak(
                [k \in 1..Len(habits) |-> <<habits[k], longest[k].value>>]))

\* Mutant of count_habit_completions_last_month: one pair for every completion
\* of the month.
count_habit_completions_last_month_per_row(today) ==
    LET rows == get_habit_completions_last_month(today)
    IN IF rows = <<>> THEN returns_None
       ELSE returns_list([k \in 1..Len(rows) |-> <<rows[k].habit_name, 1>>])

\* Counter(habit_names).items(): every name once, in the order of its first
\* row, with the number of its rows.
count_habit_completions_last_month(today) ==
    LET rows == get_habit_completions_last_month(today)
        habit_names == [k \in 1..Len(rows) |-> rows[k].habit_name]
        first == SelectSeq([k \in 1..Len(rows) |-> k],
                     LAMBDA k : \A j \in 1..(k - 1) : habit_names[j] # habit_names[k])
    IN IF rows = <<>> THEN returns_None
       ELSE returns_list([n \in 1..Len(first) |->
                <<habit_names[first[n]],
                  Cardinality({ k \in 1..Len(rows) :
                                  habit_names[k] = habit_names[first[n]] })>>])

\* The counts of the last month, ranked; None when there is none.
find_struggling_habits_last_month(today) ==
    LET c == count_habit_completions_last_month(today)
    IN IF c.outcome = "list" THEN returns_list(sort_habits_by_count(c.value))
       ELSE returns_None

(***************************************************************************)
(* The store in use: calls of HabitTrackerDB and of HabitAnalyzer          *)
(***************************************************************************)
MaxRows == 2   \* most rows of a table

\* Habit objects: one of a name, two of another that are apart in every other
\* field; "monthly" is a periodicity the analyzer does not know.
HabitPool ==
    { [name |-> "read", description |-> "a chapter", periodicity |-> "daily",
       creation_date |-> <<2024, 12, 1>>, creation_time |-> "08:00"],
      [name |-> "run", description |-> "ten km", periodicity |-> "weekly",
       creation_date |-> <<2024, 12, 1>>, creation_time |-> "08:00"],
      [name |-> "run", description |-> "marathon", periodicity |-> "monthly",
       creation_date |-> <<2024, 12, 15>>, creation_time |-> "21:30"] }

NamePool == { HabitNames[k] : k \in 1..Len(HabitNames) }

\* Completion dates: the last Sunday and the last day of 2024, the first day of
\* 2025 (ISO weeks 52 and 1), and a string that names no date.
StoreDates == { <<2024, 12, 29>>, <<2024, 12, 31>>, <<2025, 1, 1>>, <<2025, 1, 32>> }

\* Readings of the clock: twice in January, on the first of February, at the
\* end of March.
Todays ==
    { [year |-> 2025, month |-> 1, day |-> 10],
      [year |-> 2025, month |-> 1, day |-> 31],
      [year |-> 2025, month |-> 2, day |-> 1],
      [year |-> 2025, month |-> 3, day |-> 31] }

InitStore ==
    /\ habit = <<>>
    /\ habit_completions = <<>>
    /\ habit_completions_list = <<>>
    /\ arg = "None"
    /\ outcome = "None"
    /\ date1 = <<>>
    /\ date2 = <<>>
    /\ date_list = <<>>
    /\ pc = "ready"
    /\ result = "None"
    /\ i = 0
    /\ current_streak = 0
    /\ max_streak = 0
    /\ NoUI

no_store_vars == <<date1, date2, date_list, i, current_streak, max_streak,
                   habit_completions_list, ui_vars>>

DB_insert_habit ==
    \E h \in HabitPool :
        /\ Len(insert_habit(h)) <= MaxRows
        /\ habit' = insert_habit(h)
        /\ pc' = "insert_habit"
        /\ arg' = h
        /\ outcome' = "NoneType"
        /\ result' = "None"
        /\ UNCHANGED <<habit_completions, no_store_vars>>

DB_update_habit ==
    \E h \in HabitPool :
        /\ habit' = update_habit(h)
        /\ pc' = "update_habit"
        /\ arg' = h
        /\ outcome' = "NoneType"
        /\ result' = "None"
        /\ UNCHANGED <<habit_completions, no_store_vars>>

DB_delete_habit ==
    \E habit_name \in NamePool :
        /\ habit' = delete_habit(habit_name)
        /\ pc' = "delete_habit"
        /\ arg' = habit_name
        /\ outcome' = "NoneType"
        /\ result' = "None"
        /\ UNCHANGED <<habit_completions, no_store_vars>>

DB_insert_tracking_record ==
    \E habit_name \in NamePool, completion_date \in StoreDates :
        /\ Len(insert_tracking_record(habit_name, completion_date)) <= MaxRows
        /\ habit_completions' = insert_tracking_record(habit_name, completion_date)
        /\ pc' = "insert_tracking_record"
        /\ arg' = <<habit_name, completion_date>>
        /\ outcome' = "NoneType"
        /\ result' = "None"
        /\ UNCHANGED <<habit, no_store_vars>>

DB_delete_tracking_records_of_habit ==
    \E habit_name \in NamePool :
        /\ habit_completions' = delete_tracking_records_of_habit(habit_name)
        /\ pc' = "delete_tracking_records_of_habit"
        /\ arg' = habit_name
        /\ outcome' = "NoneType"
        /\ result' = "None"
        /\ UNCHANGED <<habit, no_store_vars>>

Call_get_current_streak_for_habit ==
    \E habit_name \in NamePool :
        LET r == get_current_streak_for_habit(habit_name)
        IN /\ pc' = "get_current_streak_for_habit"
           /\ arg' = habit_name
           /\ outcome' = r.outcome
           /\ result' = r.value
           /\ UNCHANGED <<habit, habit_completions, no_store_vars>>

Call_get_longest_streak_for_given_habit ==
    \E habit_name \in NamePool :
        LET r == get_longest_streak_for_given_habit(habit_name)
        IN /\ pc' = "get_longest_streak_for_given_habit"
           /\ arg' = habit_name
           /\ outcome' = r.outcome
           /\ result' = r.value
           /\ UNCHANGED <<habit, habit_completions, no_store_vars>>

Call_calculate_longest_run_streak_of_all_defined_habits ==
    LET r == calculate_longest_run_streak_of_all_defined_habits
    IN /\ pc' = "calculate_longest_run_streak_of_all_defined_habits"
       /\ arg' = "None"
       /\ outcome' = r.outcome
       /\ result' = r.value
       /\ UNCHANGED <<habit, habit_completions, no_store_vars>>

Call_count_habit_completions_last_month ==
    \E today \in Todays :
        LET r == count_habit_completions_last_month(today)
        IN /\ pc' = "count_habit_completions_last_month"
           /\ arg' = today
           /\ outcome' = r.outcome
           /\ result' = r.value
           /\ UNCHANGED <<habit, habit_completions, no_store_vars>>

NextStore ==
    \/ DB_insert_habit
    \/ DB_update_habit
    \/ DB_delete_habit
    \/ DB_insert_tracking_record
    \/ DB_delete_tracking_records_of_habit
    \/ Call_get_current_streak_for_habit
    \/ Call_get_longest_streak_for_given_habit
    \/ Call_calculate_longest_run_streak_of_all_defined_habits
    \/ Call_count_habit_completions_last_month

SpecStore == InitStore /\ [][NextStore]_vars

(***************************************************************************)
(* The reading operations, called again and again                          *)
(***************************************************************************)
\* Stores the calls above lead to: two habits with two completions of one of
\* them in December; the same with the completions spread over the habits and
\* the months; a habit of unknown periodicity next to one without completions.
FrameStores ==
    { [habit |-> <<[name |-> "read", description |-> "a chapter",
                    periodicity |-> "daily", creation_date |-> <<2024, 12, 1>>,
                    creation_time |-> "08:00"],
                   [name |-> "run", description |-> "ten km",
                    periodicity |-> "weekly", creation_date |-> <<2024, 12, 1>>,
                    creation_time |-> "08:00"]>>,
       habit_completions |->
           <<[habit_name |-> "read", completion_date |-> <<2024, 12, 29>>],
             [habit_name |-> "read", completion_date |-> <<2024, 12, 31>>]>>],
      [habit |-> <<[name |-> "read", description |-> "a chapter",
                    periodicity |-> "daily", creation_date |-> <<2024, 12, 1>>,
                    creation_time |-> "08:00"],
                   [name |-> "run", description |-> "ten km",
                    periodicity |-> "weekly", creation_date |-> <<2024, 12, 1>>,
                    creation_time |-> "08:00"]>>,
       habit_completions |->
           <<[habit_name |-> "run", completion_date |-> <<2025, 1, 1>>],
             [habit_name |-> "read", completion_date |-> <<2024, 12, 31>>]>>],
      [habit |-> <<[name |-> "run", description |-> "marathon",
                    periodicity |-> "monthly", creation_date |-> <<2024, 12, 15>>,
                    creation_time |-> "21:30"],
                   [name |-> "read", description |-> "a chapter",
                    periodicity |-> "daily", creation_date |-> <<2024, 12, 1>>,
                    creation_time |-> "08:00"]>>,
       habit_completions |->
           <<[habit_name |-> "run", completion_date |-> <<2024, 12, 29>>]>>] }

\* Lists of one or two entries, in any order.
FrameDateLists == { l \in AnyLists : Len(l) \in {1, 2} }

FrameRankLists == { l \in RankLists : Len(l) \in {1, 2} }

\* Either a store and no list, or a list of dates, or a list of pairs.
InitFrame ==
    /\ \/ /\ \E st \in FrameStores :
                /\ habit = st.habit
                /\ habit_completions = st.habit_completions
          /\ date_list = <<>>
          /\ habit_completions_list = <<>>
       \/ /\ habit = <<>>
          /\ habit_completions = <<>>
          /\ date_list \in FrameDateLists
          /\ habit_completions_list = <<>>
       \/ /\ habit = <<>>
          /\ habit_completions = <<>>
          /\ date_list = <<>>
          /\ habit_completions_list \in FrameRankLists
    /\ arg = "None"
    /\ outcome = "None"
    /\ date1 = <<>>
    /\ date2 = <<>>
    /\ pc = "ready"
    /\ result = "None"
    /\ i = 0
    /\ current_streak = 0
    /\ max_streak = 0
    /\ NoUI

Call_find_struggling_habits_last_month ==
    \E today \in Todays :
        LET r == find_struggling_habits_last_month(today)
        IN /\ pc' = "find_struggling_habits_last_month"
           /\ arg' = today
           /\ outcome' = r.outcome
           /\ result' = r.value
           /\ UNCHANGED <<habit, habit_completions, no_store_vars>>

NextFrame ==
    \/ Call_get_current_streak_for_habit
    \/ Call_get_longest_streak_for_given_habit
    \/ Call_calculate_longest_run_streak_of_all_defined_habits
    \/ Call_count_habit_completions_last_month
    \/ Call_find_struggling_habits_last_month
    \/ Call_sort_dates_descending
    \/ Call_sort_habits_by_count
    \/ Call_sort_habits_by_max_streak

SpecFrame == InitFrame /\ [][NextFrame]_vars

(***************************************************************************)
(* UserInterface and main (src/src/cli.py, src/src/habit.py,               *)
(* src/src/main.py)                                                        *)
(***************************************************************************)
\* Store instances.  DefaultStore is the HabitTrackerDB() that is the default
\* of the parameter database of Habit.__init__: Python constructs it once,
\* when habit.py is loaded, on the file habit_tracker.db.  "main.db" is the
\* store main constructs, on the same file through a connection of its own;
\* "db" is a store a caller constructs on a connection it chooses and hands to
\* UserInterface.
DefaultStore == "HabitTrackerDB()"

db_path(store) == IF store = "db" THEN ":memory:" ELSE "habit_tracker.db"

\* The store of the UserInterface and the default store of Habit read and
\* write the same tables when they are connected to the same file.
same_tables == db_path(habit_db) = db_path(DefaultStore)

\* Habit.__init__: self.db is the argument database, and the default store
\* when the call passes none ("None" stands for no argument).
Habit_db(database) == IF database = "None" THEN DefaultStore ELSE database

\* Strings that name no date, as triples that sort where the strings sort,
\* behind every date: 'None' is str(None), 'Unknown' the creation_date that
\* Habit.__init__ gives a habit made without one.
str_None == <<10000, 0, 0>>
Unknown == <<10000, 0, 1>>

\* update_habit and delete_habit as the default store runs them, on the tables
\* of its own connection.
default_update_habit(h) ==
    [k \in 1..Len(default_habit) |->
        IF default_habit[k].name = h.name
          THEN [default_habit[k] EXCEPT !.description = h.description,
                                        !.periodicity = h.periodicity]
        ELSE default_habit[k]]

default_delete_habit(habit_name) ==
    SelectSeq(default_habit, LAMBDA row : row.name # habit_name)

\* Table habit as the two stores read it after a statement that ran on store:
\* ui_rows is what the statement leaves when it runs on the store of the
\* UserInterface, default_rows when it runs on the default store.
habit_tables_after(store, ui_rows, default_rows) ==
    IF same_tables
      THEN [habit |-> ui_rows, default_habit |-> ui_rows]
    ELSE IF store = habit_db
      THEN [habit |-> ui_rows, default_habit |-> default_habit]
    ELSE [habit |-> habit, default_habit |-> default_rows]

\* SELECT 1 FROM habit WHERE name = ?
habit_exists(habit_name) ==
    \E k \in 1..Len(habit) : habit[k].name = habit_name

\* SELECT description, periodicity FROM habit WHERE name = ?
fetch_habit_metadata(habit_name) ==
    LET rows == SelectSeq(habit, LAMBDA row : row.name = habit_name)
    IN [description |-> rows[1].description, periodicity |-> rows[1].periodicity]

\* SELECT creation_date FROM habit WHERE name = ?
get_creation_date_of_habit(habit_name) ==
    LET rows == SelectSeq(habit, LAMBDA row : row.name = habit_name)
    IN rows[1].creation_date

\* The records of the habit are deleted when there are any.
remove_tracking_records_of_habit(habit_name) ==
    IF \E k \in 1..Len(habit_completions) :
           habit_completions[k].habit_name = habit_name
      THEN delete_tracking_records_of_habit(habit_name)
    ELSE habit_completions

get_periodicity_choices == {"daily", "weekly"}

\* The names select_habit_name can return: None when the store has no habit or
\* the user selects nothing.
select_habit_name_choices ==
    { list_habit_names[k] : k \in 1..Len(list_habit_names) } \cup {"None"}

\* What a prompt for a completion date ends in: a date, None, or, when the
\* answers given so far are used up, the next prompt.
returns_date(d, answers) == [outcome |-> "date", value |-> d, rest |-> answers]
returns_no_date(answers) == [outcome |-> "NoneType", value |-> "None", rest |-> answers]
prompts == [outcome |-> "prompt", value |-> "None", rest |-> <<>>]

\* The loop of check_dates.  Every answer of get_date is a string that names a
\* date: today's, or one that date.fromisoformat has accepted.
RECURSIVE check_dates_loop(_, _, _)
check_dates_loop(creation_date, completion_date, answers) ==
    IF date_gt(creation_date, completion_date)
      THEN IF answers = <<>> THEN prompts
           ELSE check_dates_loop(creation_date, strptime(Head(answers)),
                                 Tail(answers))
    ELSE returns_date(completion_date, answers)

\* ValueError of strptime is caught and None is returned.
check_dates(creation_date, completion_date, answers) ==
    IF strptime_raises(creation_date) \/ strptime_raises(completion_date)
      THEN returns_no_date(answers)
    ELSE check_dates_loop(strptime(creation_date), strptime(completion_date),
                          answers)

\* completion_date.strftime('%Y-%m-%d') in the list of the habit's dates; with
\* None for a date, strftime raises AttributeError when the habit has dates,
\* the function prints it and returns None, which is false in a condition.
is_date_in_completion_dates(habit_name, completion_date) ==
    LET completion_dates_of_habit == list_completion_dates_of_habit(habit_name)
    IN /\ completion_dates_of_habit # <<>>
       /\ completion_date.outcome = "date"
       /\ \E k \in 1..Len(completion_dates_of_habit) :
              completion_dates_of_habit[k] = isoformat(completion_date.value)

\* The while loop calls the function again, and tests what that call returns.
RECURSIVE get_valid_completion_date(_, _)
RECURSIVE already_saved_loop(_, _)
already_saved_loop(habit_name, completion_date) ==
    IF is_date_in_completion_dates(habit_name, completion_date)
      THEN already_saved_loop(habit_name,
               get_valid_completion_date(habit_name, completion_date.rest))
    ELSE completion_date

get_valid_completion_date(habit_name, answers) ==
    IF answers = <<>> THEN prompts
    ELSE already_saved_loop(habit_name,
             check_dates(get_creation_date_of_habit(habit_name), Head(answers),
                         Tail(answers)))

\* str(completion_date) in insert_tracking_record, of a date or of None.
str(completion_date) ==
    IF completion_date.outcome = "date" THEN isoformat(completion_date.value)
    ELSE str_None

\* Mutant of close: the connection stays as it is.
close_keeps_connection(conn) ==
    conn

\* HabitTrackerDB.close: an open connection is closed, and the attribute is
\* None afterwards.
close(conn) ==
    "None"

MaxAnswers == 2   \* most answers to the prompts of one add_tracking_record

\* Dates the user answers a prompt with: before and after the creation dates.
AnswerPool == { <<2024, 11, 30>>, <<2024, 12, 29>>, <<2025, 1, 1>> }

AnswerLists == UNION { [1..n -> AnswerPool] : n \in 1..MaxAnswers }

Descriptions == {"two chapters"}

\* Stores a UserInterface is constructed with: a habit with a completion, a
\* habit that was made without a creation date.
UIStores ==
    { [habit |-> <<[name |-> "read", description |-> "a chapter",
                    periodicity |-> "daily", creation_date |-> <<2024, 12, 1>>,
                    creation_time |-> "08:00"]>>,
       habit_completions |->
           <<[habit_name |-> "read", completion_date |-> <<2024, 12, 29>>]>>],
      [habit |-> <<[name |-> "run", description |-> "ten km",
                    periodicity |-> "weekly", creation_date |-> Unknown,
                    creation_time |-> "Unknown"]>>,
       habit_completions |-> <<>>] }

\* What habit_tracker.db holds when the UserInterface has a store elsewhere.
DefaultTables ==
    { <<[name |-> "read", description |-> "a chapter", periodicity |-> "daily",
         creation_date |-> <<2024, 12, 1>>, creation_time |-> "08:00"]>> }

\* What arg and result hold when a handler has no habit to work on and hands
\* no string to the store.
no_habit == [habit_name |-> "None"]
no_string == <<>>

\* Either main is about to run on habit_tracker.db, or a caller has
\* constructed a UserInterface with a store on a database of its own.
InitUI ==
    /\ \E st \in UIStores :
           /\ habit = st.habit
           /\ habit_completions = st.habit_completions
    /\ \/ /\ main_pc = "main"
          /\ habit_db = "None"
          /\ default_habit = habit
       \/ /\ main_pc = "None"
          /\ habit_db = "db"
          /\ default_habit \in DefaultTables
    /\ written = "None"
    /\ connection = "None"
    /\ close_calls = 0
    /\ raised = "None"
    /\ habit_completions_list = <<>>
    /\ arg = no_habit
    /\ outcome = "None"
    /\ date1 = <<>>
    /\ date2 = <<>>
    /\ date_list = <<>>
    /\ pc = "ready"
    /\ result = no_string
    /\ i = 0
    /\ current_streak = 0
    /\ max_streak = 0

no_ui_vars == <<date1, date2, date_list, i, current_streak, max_streak,
                habit_completions_list>>

\* db = HabitTrackerDB()
Main_HabitTrackerDB ==
    /\ main_pc = "main"
    /\ main_pc' = "try"
    /\ connection' = "open"
    /\ UNCHANGED <<pc, result, arg, outcome, habit, habit_completions,
                   default_habit, habit_db, written, close_calls, raised,
                   no_ui_vars>>

\* ui = UserInterface(db); ui.run() shows the menu
Main_UserInterface ==
    /\ main_pc = "try"
    /\ main_pc' = "run"
    /\ habit_db' = "main.db"
    /\ UNCHANGED <<pc, result, arg, outcome, habit, habit_completions,
                   default_habit, connection, written, close_calls, raised,
                   no_ui_vars>>

\* finally: db.close(); the exception that ended run goes on out of main.
Main_close ==
    /\ main_pc = "finally"
    /\ main_pc' = "done"
    /\ connection' = close(connection)
    /\ close_calls' = close_calls + 1
    /\ UNCHANGED <<pc, result, arg, outcome, habit, habit_completions,
                   default_habit, habit_db, written, raised, no_ui_vars>>

\* run is in its loop and display_menu asks for a choice.
displaying_menu ==
    /\ habit_db # "None"
    /\ raised = "None"
    /\ main_pc \in {"None", "run"}

\* An exception leaves run; in main, control goes to the finally clause.
run_ends(exception) ==
    /\ raised' = exception
    /\ main_pc' = IF main_pc = "run" THEN "finally" ELSE main_pc

final_menu_choices == {"clear_screen", "exit_program"}

\* final_menu: back to the menu, or exit_program, whose exit() raises
\* SystemExit.
final_menu(choice) ==
    IF choice = "exit_program" THEN run_ends("SystemExit")
    ELSE UNCHANGED <<raised, main_pc>>

\* "Exit" in the menu.
UI_exit_program ==
    /\ displaying_menu
    /\ run_ends("SystemExit")
    /\ pc' = "UserInterface.exit_program"
    /\ arg' = no_habit
    /\ outcome' = "SystemExit"
    /\ result' = no_string
    /\ written' = "None"
    /\ UNCHANGED <<habit, habit_completions, default_habit, habit_db,
                   connection, close_calls, no_ui_vars>>

\* Ctrl-C at an input() of get_valid_date or get_valid_time: no handler of
\* the UserInterface catches KeyboardInterrupt, and nothing is written yet.
UI_KeyboardInterrupt ==
    /\ displaying_menu
    /\ run_ends("KeyboardInterrupt")
    /\ pc' = "UserInterface.get_valid_date"
    /\ arg' = no_habit
    /\ outcome' = "KeyboardInterrupt"
    /\ result' = no_string
    /\ written' = "None"
    /\ UNCHANGED <<habit, habit_completions, default_habit, habit_db,
                   connection, close_calls, no_ui_vars>>

\* The name is one the store does not have (get_valid_habit_name), the
\* periodicity one of the two choices, the creation date a date (get_date); the
\* Habit is constructed with database = self.habit_db.
UI_add_habit ==
    \E h \in HabitPool, choice \in final_menu_choices :
        /\ displaying_menu
        /\ ~habit_exists(h.name)
        /\ h.periodicity \in get_periodicity_choices
        /\ ~strptime_raises(h.creation_date)
        /\ Len(insert_habit(h)) <= MaxRows
        /\ LET t == habit_tables_after(Habit_db(habit_db), insert_habit(h),
                                       default_habit)
           IN /\ habit' = t.habit
              /\ default_habit' = t.default_habit
        /\ written' = Habit_db(habit_db)
        /\ pc' = "UserInterface.add_habit"
        /\ arg' = h
        /\ outcome' = "NoneType"
        /\ result' = no_string
        /\ final_menu(choice)
        /\ UNCHANGED <<habit_completions, habit_db, connection, close_calls,
                       no_ui_vars>>

\* What modify_habit asks: the description when the user wants to change it,
\* the periodicity likewise, and whether to remove the records when the
\* periodicity chosen is the stored one.
modify_habit_answers(habit_name) ==
    { a \in [change_description : BOOLEAN,
             description : Descriptions \cup {"None"},
             change_periodicity : BOOLEAN,
             periodicity : get_periodicity_choices \cup {"None"},
             confirmation : BOOLEAN] :
        /\ a.change_description <=> a.description # "None"
        /\ a.change_periodicity <=> a.periodicity # "None"
        /\ a.confirmation =>
               a.periodicity = get_habit_periodicity(habit_name) }

\* The Habit is constructed without the argument database.
UI_modify_habit ==
    \E habit_name \in select_habit_name_choices,
       choice \in final_menu_choices :
        /\ displaying_menu
        /\ pc' = "UserInterface.modify_habit"
        /\ outcome' = "NoneType"
        /\ result' = no_string
        /\ final_menu(choice)
        /\ IF habit_name = "None"
             THEN /\ arg' = no_habit
                  /\ written' = "None"
                  /\ UNCHANGED <<habit, habit_completions, default_habit>>
           ELSE \E a \in modify_habit_answers(habit_name) :
                    LET stored == fetch_habit_metadata(habit_name)
                        h == [name |-> habit_name,
                              description |->
                                  IF a.change_description THEN a.description
                                  ELSE stored.description,
                              periodicity |->
                                  IF a.change_periodicity THEN a.periodicity
                                  ELSE stored.periodicity,
                              creation_date |-> Unknown,
                              creation_time |-> "Unknown"]
                        remove ==
                            /\ a.change_periodicity
                            /\ \/ a.periodicity #
                                      get_habit_periodicity(habit_name)
                               \/ a.confirmation
                        t == habit_tables_after(Habit_db("None"),
                                                update_habit(h),
                                                default_update_habit(h))
                    IN /\ habit_completions' =
                              IF remove
                                THEN remove_tracking_records_of_habit(habit_name)
                              ELSE habit_completions
                       /\ habit' = t.habit
                       /\ default_habit' = t.default_habit
                       /\ written' = Habit_db("None")
                       /\ arg' = h
        /\ UNCHANGED <<habit_db, connection, close_calls, no_ui_vars>>

\* The Habit is constructed without the argument database; the records are
\* removed through self.analytics, on the store of the UserInterface.
UI_remove_habit ==
    \E habit_name \in select_habit_name_choices, confirmation \in BOOLEAN,
       choice \in final_menu_choices :
        /\ displaying_menu
        /\ pc' = "UserInterface.remove_habit"
        /\ arg' = [habit_name |-> habit_name, confirmation |-> confirmation]
        /\ outcome' = "NoneType"
        /\ result' = no_string
        /\ final_menu(choice)
        /\ IF habit_name = "None" \/ ~confirmation
             THEN /\ written' = "None"
                  /\ UNCHANGED <<habit, habit_completions, default_habit>>
           ELSE LET t == habit_tables_after(Habit_db("None"),
                                            delete_habit(habit_name),
                                            default_delete_habit(habit_name))
                IN /\ habit' = t.habit
                   /\ default_habit' = t.default_habit
                   /\ habit_completions' =
                          remove_tracking_records_of_habit(habit_name)
                   /\ written' = Habit_db("None")
        /\ UNCHANGED <<habit_db, connection, close_calls, no_ui_vars>>

\* answers are the user's answers to the prompts for a completion date, as
\* many as the handler asks for; arg is the habit selected and result the
\* string that goes to insert_tracking_record.
UI_add_tracking_record ==
    \E habit_name \in select_habit_name_choices,
       choice \in final_menu_choices :
        /\ displaying_menu
        /\ pc' = "UserInterface.add_tracking_record"
        /\ final_menu(choice)
        /\ IF habit_name = "None"
             THEN /\ arg' = no_habit
                  /\ outcome' = "NoneType"
                  /\ result' = no_string
                  /\ UNCHANGED habit_completions
           ELSE \E answers \in AnswerLists :
                    LET completion_date ==
                            get_valid_completion_date(habit_name, answers)
                    IN /\ completion_date.outcome # "prompt"
                       /\ completion_date.rest = <<>>
                       /\ Len(insert_tracking_record(habit_name,
                               str(completion_date))) <= MaxRows
                       /\ habit_completions' =
                              insert_tracking_record(habit_name,
                                                     str(completion_date))
                       /\ arg' = [habit_name |-> habit_name]
                       /\ outcome' = "str"
                       /\ result' = str(completion_date)
        /\ written' = "None"
        /\ UNCHANGED <<habit, default_habit, habit_db, connection, close_calls,
                       no_ui_vars>>

\* Any of the eight show_ handlers of the menu: each prints what the analyzer
\* reads from the store, writes nothing, and ends in final_menu.
UI_show ==
    \E choice \in final_menu_choices :
        /\ displaying_menu
        /\ pc' = "UserInterface.show_all_habits"
        /\ arg' = no_habit
        /\ outcome' = "NoneType"
        /\ result' = no_string
        /\ written' = "None"
        /\ final_menu(choice)
        /\ UNCHANGED <<habit, habit_completions, default_habit, habit_db,
                       connection, close_calls, no_ui_vars>>

NextUI ==
    \/ Main_HabitTrackerDB
    \/ Main_UserInterface
    \/ Main_close
    \/ UI_exit_program
    \/ UI_KeyboardInterrupt
    \/ UI_add_habit
    \/ UI_modify_habit
    \/ UI_remove_habit
    \/ UI_add_tracking_record
    \/ UI_show

SpecUI == InitUI /\ [][NextUI]_vars

\* main goes on when it can: the finally clause runs once run has ended.
SpecMain == InitUI /\ [][NextUI]_vars /\ WF_main_pc(Main_close)

(***************************************************************************)
(* Vocabulary of the properties                                            *)
(***************************************************************************)
valid(s) == ~strptime_raises(s)
all_valid(l) == \A k \in 1..Len(l) : valid(l[k])
ord_of(s) == ymd2ord(s[1], s[2], s[3])

\* Number of the Monday-to-Sunday week a date lies in, counted from the week of
\* 0001-01-01 (a Monday): two dates share an ISO week iff their numbers are
\* equal, and lie in successive ISO weeks iff the numbers differ by one.
week_index(s) == (ord_of(s) - 1) \div 7

iso_year(s) == isocalendar(strptime(s))[1]
iso_week(s) == isocalendar(strptime(s))[2]

ascending(l) == \A k \in 1..(Len(l) - 1) : ord_of(l[k]) <= ord_of(l[k + 1])
strictly_ascending(l) == \A k \in 1..(Len(l) - 1) : ord_of(l[k]) < ord_of(l[k + 1])
descending(l) == \A k \in 1..(Len(l) - 1) : ord_of(l[k]) >= ord_of(l[k + 1])

set_max(S) == CHOOSE x \in S : \A y \in S : y <= x
set_min(S) == CHOOSE x \in S : \A y \in S : x <= y

(***************************************************************************)
(* C9, C10: the ISO-week predicates                                        *)
(***************************************************************************)
earlier(s, t) == IF ord_of(s) <= ord_of(t) THEN s ELSE t
later(s, t) == IF ord_of(s) <= ord_of(t) THEN t ELSE s

\* C9: for two valid dates in either argument order, with a the earlier and b
\* the later, are_dates_in_consecutive_weeks returns true exactly when a and b
\* have the same ISO year and week(b) = week(a) + 1, or the ISO year of b is
\* that of a plus 1, a lies in the week of December 28 of its ISO year and b
\* lies in ISO week 1; it returns false when a and b share an ISO week and when
\* more than one week lies between them.
C9_ConsecutiveWeeks ==
    (pc = "are_dates_in_consecutive_weeks" /\ valid(date1) /\ valid(date2)) =>
        LET a == earlier(date1, date2)
            b == later(date1, date2)
        IN /\ result =
                (\/ iso_year(a) = iso_year(b) /\ iso_week(b) = iso_week(a) + 1
                 \/ /\ iso_year(b) = iso_year(a) + 1
                    /\ week_index(a) = week_index(<<iso_year(a), 12, 28>>)
                    /\ iso_week(b) = 1)
           /\ (week_index(a) = week_index(b) => result = FALSE)
           /\ (week_index(b) - week_index(a) > 1 => result = FALSE)

\* C9 witness: the later date is passed first, the dates lie in different ISO
\* years, and the call returned true.
C9_Witness ==
    /\ pc = "are_dates_in_consecutive_weeks"
    /\ valid(date1) /\ valid(date2)
    /\ ord_of(date1) > ord_of(date2)
    /\ iso_year(date1) = iso_year(date2) + 1
    /\ iso_week(date2) = 53
    /\ result = TRUE

\* C10: for two valid date strings are_in_same_week returns true exactly when
\* both have the same ISO year and the same ISO week number: true for dates of
\* different calendar years in one Monday-to-Sunday week, false for dates with
\* the same week number in different ISO years.
C10_SameWeek ==
    (pc = "are_in_same_week" /\ valid(date1) /\ valid(date2)) =>
        /\ result \in {"True", "False"}
        /\ (result = "True") =
               (iso_year(date1) = iso_year(date2) /\ iso_week(date1) = iso_week(date2))
        /\ (date1[1] # date2[1] /\ week_index(date1) = week_index(date2)
               => result = "True")
        /\ (iso_week(date1) = iso_week(date2) /\ iso_year(date1) # iso_year(date2)
               => result = "False")

\* C10 witness: December 31 and January 1 of one ISO week, reported as the same week.
C10_Witness ==
    /\ pc = "are_in_same_week"
    /\ date1 = <<2024, 12, 31>>
    /\ date2 = <<2025, 1, 1>>
    /\ result = "True"

(***************************************************************************)
(* C1 .. C8: the streak calculators                                        *)
(***************************************************************************)
weeks_of(l) == {week_index(l[k]) : k \in 1..Len(l)}

\* Largest n such that n successive weeks each hold a date of l.
longest_week_run(l) ==
    set_max({n \in 0..Len(l) :
                \E w \in weeks_of(l) \cup {0} :
                    \A j \in 0..(n - 1) : (w + j) \in weeks_of(l)})

\* C1: for a non-empty ascending sequence of valid dates
\* calculate_longest_streak_for_weekly_habit returns the largest number of
\* successive ISO weeks that each hold a completion, several completions in
\* one week counting once.
C1_LongestWeeklyIsLongestRun ==
    (/\ pc = "calculate_longest_streak_for_weekly_habit"
     /\ Len(date_list) >= 1 /\ all_valid(date_list) /\ ascending(date_list))
        => result = longest_week_run(date_list)

\* C2: the scan of calculate_longest_streak_for_weekly_habit over an ascending
\* sequence of valid dates starts with running streak 1 and maximum 1; a pair
\* in successive ISO weeks adds 1 to the running streak; a pair in one ISO week
\* changes nothing; any other pair sets the maximum to the running streak and
\* the running streak to 1 when the running streak is greater than the
\* maximum, and changes nothing otherwise; after the last pair the result is
\* the larger of the maximum and the running streak, which is what the
\* function returns.
C2_Step ==
    (pc = "loop" /\ all_valid(date_list) /\ ascending(date_list)) =>
        /\ (i = 1 => current_streak = 1 /\ max_streak = 1)
        /\ IF i < Len(date_list)
             THEN LET gap == week_index(date_list[i + 1]) - week_index(date_list[i])
                  IN /\ pc' = "loop"
                     /\ i' = i + 1
                     /\ gap = 1 =>
                            current_streak' = current_streak + 1
                                /\ max_streak' = max_streak
                     /\ gap = 0 =>
                            current_streak' = current_streak
                                /\ max_streak' = max_streak
                     /\ (gap > 1 /\ current_streak > max_streak) =>
                            current_streak' = 1 /\ max_streak' = current_streak
                     /\ (gap > 1 /\ current_streak <= max_streak) =>
                            current_streak' = current_streak
                                /\ max_streak' = max_streak
           ELSE /\ pc' = "calculate_longest_streak_for_weekly_habit"
                /\ result' = max2(max_streak, current_streak)
                /\ result' = calculate_longest_streak_for_weekly_habit(date_list)

descending_gap_pairs(l) ==
    {k \in 1..(Len(l) - 1) : week_index(l[k]) - week_index(l[k + 1]) \notin {0, 1}}

first_gap_pair(l) ==
    IF descending_gap_pairs(l) = {} THEN Len(l) ELSE set_min(descending_gap_pairs(l))

\* Number of successive ISO weeks holding a date of l, counted back from the
\* week of l[1].
weeks_ending_at_first(l) ==
    set_max({n \in 1..Len(l) :
                \A j \in 0..(n - 1) : (week_index(l[1]) - j) \in weeks_of(l)})

\* C3: for a non-empty descending sequence of valid dates
\* calculate_current_streak_for_weekly_habit returns 1 plus the number of
\* pairs in successive ISO weeks met before the first pair that is neither in
\* successive weeks nor in one week, pairs in one week being passed over; this
\* is the number of successive ISO weeks with a completion that ends at the
\* week of the most recent completion.
C3_CurrentWeekly ==
    (/\ pc = "calculate_current_streak_for_weekly_habit"
     /\ Len(date_list) >= 1 /\ all_valid(date_list) /\ descending(date_list))
        => /\ result = 1 + Cardinality(
                   {k \in 1..(first_gap_pair(date_list) - 1) :
                       week_index(date_list[k]) - week_index(date_list[k + 1]) = 1})
           /\ result = weeks_ending_at_first(date_list)

\* C3 witness: a same-week pair comes before a pair in successive weeks that was
\* counted, and a gap stopped the scan before the end of the list.
C3_Witness ==
    /\ pc = "calculate_current_streak_for_weekly_habit"
    /\ Len(date_list) >= 4 /\ all_valid(date_list) /\ descending(date_list)
    /\ week_index(date_list[1]) = week_index(date_list[2])
    /\ week_index(date_list[2]) - week_index(date_list[3]) = 1
    /\ descending_gap_pairs(date_list) # {}
    /\ result >= 2
    /\ result < Cardinality(weeks_of(date_list))

\* Length of the longest block l[a..b] whose adjacent dates are one day apart.
longest_day_block(l) ==
    set_max({b - a + 1 : <<a, b>> \in
        {p \in (1..Len(l)) \X (1..Len(l)) :
            /\ p[1] <= p[2]
            /\ \A k \in p[1]..(p[2] - 1) : ord_of(l[k + 1]) - ord_of(l[k]) = 1}})

\* C4: for a non-empty ascending sequence of distinct valid dates
\* calculate_longest_streak_for_daily_habit returns the length of the longest
\* block of adjacent entries each one day after the one before, a block that
\* ends at the last element included.
C4_LongestDaily ==
    (/\ pc = "calculate_longest_streak_for_daily_habit"
     /\ Len(date_list) >= 1 /\ all_valid(date_list)
     /\ strictly_ascending(date_list))
        => result = longest_day_block(date_list)

\* C4 witness: the longest block ends at the last element and follows a gap.
C4_Witness ==
    /\ pc = "calculate_longest_streak_for_daily_habit"
    /\ Len(date_list) >= 5 /\ all_valid(date_list)
    /\ strictly_ascending(date_list)
    /\ ord_of(date_list[2]) - ord_of(date_list[1]) = 1
    /\ ord_of(date_list[3]) - ord_of(date_list[2]) > 1
    /\ \A k \in 3..(Len(date_list) - 1) :
           ord_of(date_list[k + 1]) - ord_of(date_list[k]) = 1
    /\ result = Len(date_list) - 2

\* Length of the longest prefix of l in which each date is one day before the
\* one that precedes it.
one_day_prefix(l) ==
    set_max({n \in 1..Len(l) :
                \A k \in 1..(n - 1) : ord_of(l[k]) - ord_of(l[k + 1]) = 1})

\* C5: for a non-empty descending sequence of valid dates
\* calculate_current_streak_for_daily_habit returns the length of the longest
\* prefix in which every entry is one day before the entry preceding it; the
\* pairs after the first pair that is not one day apart do not change the
\* result.
C5_CurrentDaily ==
    (/\ pc = "calculate_current_streak_for_daily_habit"
     /\ Len(date_list) >= 1 /\ all_valid(date_list) /\ descending(date_list))
        => /\ result = one_day_prefix(date_list)
           /\ \A n \in result..Len(date_list) :
                  calculate_current_streak_for_daily_habit(SubSeq(date_list, 1, n))
                      = result

\* C5 witness: the scan stopped at a gap and a later pair is one day apart.
C5_Witness ==
    /\ pc = "calculate_current_streak_for_daily_habit"
    /\ Len(date_list) >= 4 /\ all_valid(date_list) /\ descending(date_list)
    /\ result = 2
    /\ \E k \in 3..(Len(date_list) - 1) :
           ord_of(date_list[k]) - ord_of(date_list[k + 1]) = 1

no_gaps(l) == \A k \in 1..(Len(l) - 1) : ord_of(l[k + 1]) - ord_of(l[k]) = 1

\* C6: for a non-empty ascending sequence without gaps
\* calculate_longest_streak_for_daily_habit returns the length of the
\* sequence, and calculate_current_streak_for_daily_habit of the reversed
\* sequence returns the same value.
C6_NoGaps ==
    (/\ pc = "calculate_longest_streak_for_daily_habit"
     /\ Len(date_list) >= 1 /\ all_valid(date_list) /\ no_gaps(date_list))
        => /\ result = Len(date_list)
           /\ calculate_current_streak_for_daily_habit(reversed(date_list)) = result

\* C6 witness: four days without a gap across the turn of the year.
C6_Witness ==
    /\ pc = "calculate_longest_streak_for_daily_habit"
    /\ Len(date_list) >= 4 /\ all_valid(date_list) /\ no_gaps(date_list)
    /\ date_list[1][1] # date_list[Len(date_list)][1]
    /\ result = Len(date_list)

\* C7: calculate_longest_streak_for_daily_habit returns 0 for the empty
\* sequence, a value other than the 1 it returns for a single date.
C7_LongestDailyEmpty ==
    pc = "calculate_longest_streak_for_daily_habit" =>
        /\ (date_list = <<>> => result = 0)
        /\ (Len(date_list) = 1 /\ all_valid(date_list) => result = 1)

streak_calculators ==
    { "calculate_current_streak_for_daily_habit",
      "calculate_current_streak_for_weekly_habit",
      "calculate_longest_streak_for_daily_habit",
      "calculate_longest_streak_for_weekly_habit" }

\* C8: for a non-empty sequence of n valid dates, in any order, each of the
\* four streak calculators returns a value from 1 to n, and so 1 when n = 1.
C8_StreakRange ==
    (/\ pc \in streak_calculators
     /\ Len(date_list) >= 1 /\ all_valid(date_list))
        => /\ result \in 1..Len(date_list)
           /\ (Len(date_list) = 1 => result = 1)

\* C8 witness: the weekly current streak of a list in neither order reaches
\* the upper end of the range.
C8_Witness ==
    /\ pc = "calculate_current_streak_for_weekly_habit"
    /\ Len(date_list) = 3 /\ all_valid(date_list)
    /\ ~ascending(date_list) /\ ~descending(date_list)
    /\ result = 3

(***************************************************************************)
(* C11, C12: sort_dates_descending and the strings that name no date       *)
(***************************************************************************)
occurrences(l, x) == Cardinality({ k \in 1..Len(l) : l[k] = x })

\* a and b hold the same entries, each as often in a as in b.
permutation(a, b) ==
    /\ Len(a) = Len(b)
    /\ \A k \in 1..Len(a) : occurrences(a, a[k]) = occurrences(b, a[k])

C12_SortDescending ==
    (pc = "sort_dates_descending" /\ all_valid(date_list))
        => /\ permutation(result, date_list)
           /\ descending(result)
           /\ (descending(date_list) => result = date_list)
           /\ sort_dates_descending(result) = result

\* C12 witness: three dates in neither order, one of them twice, were sorted.
C12_Witness ==
    /\ pc = "sort_dates_descending"
    /\ Len(date_list) = 3 /\ all_valid(date_list)
    /\ ~ascending(date_list) /\ ~descending(date_list)
    /\ \E k \in 1..2 : date_list[k] = date_list[3]
    /\ result # date_list /\ Len(result) = 3

(***************************************************************************)
(* C13: the rankings                                                       *)
(***************************************************************************)
rankings == {"sort_habits_by_count", "sort_habits_by_max_streak"}

non_increasing(l) == \A k \in 1..(Len(l) - 1) : l[k][2] >= l[k + 1][2]

with_number(l, n) == SelectSeq(l, LAMBDA x : x[2] = n)

\* C13: sort_habits_by_count and sort_habits_by_max_streak return a
\* permutation of the (name, number) pairs they are given, in non-increasing
\* order of the number, and pairs with equal numbers keep their input order.
C13_Ranking ==
    pc \in rankings =>
        /\ permutation(result, habit_completions_list)
        /\ non_increasing(result)
        /\ \A n \in RankNumbers :
               with_number(result, n) = with_number(habit_completions_list, n)

\* C13 witness: the smallest number came first and two habits tie behind it.
C13_Witness ==
    /\ pc = "sort_habits_by_max_streak"
    /\ Len(habit_completions_list) = 3
    /\ habit_completions_list[1][2] < habit_completions_list[2][2]
    /\ habit_completions_list[2][2] = habit_completions_list[3][2]
    /\ habit_completions_list[2][1] # habit_completions_list[3][1]
    /\ result = <<habit_completions_list[2], habit_completions_list[3],
                  habit_completions_list[1]>>

(***************************************************************************)
(* C14 to C17: the streaks of the habits of the store                      *)
(***************************************************************************)
known_periodicities == {"daily", "weekly"}

returned == {"int", "list", "NoneType"}

has_row(habit_name) == \E k \in 1..Len(habit) : habit[k].name = habit_name

completions_of(habit_name) ==
    { k \in 1..Len(habit_completions) :
        habit_completions[k].habit_name = habit_name }

completion_dates_valid(habit_name) ==
    \A k \in completions_of(habit_name) :
        valid(habit_completions[k].completion_date)

\* C14: when the store reports another periodicity than 'daily' or 'weekly'
\* for a habit that has completion dates, get_current_streak_for_habit and
\* get_longest_streak_for_given_habit end in an error: they do not return.
C14_UnknownPeriodicity ==
    (/\ pc \in {"get_current_streak_for_habit",
                "get_longest_streak_for_given_habit"}
     /\ has_row(arg)
     /\ get_habit_periodicity(arg) \notin known_periodicities
     /\ completions_of(arg) # {})
        => outcome \notin returned

C16_CurrentNoCompletions ==
    (pc = "get_current_streak_for_habit" /\ completions_of(arg) = {})
        => (outcome = "int" /\ result = 0)

\* C17: with at least one habit in the store
\* calculate_longest_run_streak_of_all_defined_habits returns a list with
\* exactly one pair per habit name, the second component being what
\* get_longest_streak_for_given_habit returns for the name, in non-increasing
\* order of it; with no habit it returns None.
C17_LongestOfAll ==
    pc = "calculate_longest_run_streak_of_all_defined_habits" =>
        IF habit = <<>> THEN outcome = "NoneType"
        ELSE /\ outcome = "list"
             /\ \A n \in NamePool :
                    Cardinality({ k \in 1..Len(result) : result[k][1] = n })
                        = (IF has_row(n) THEN 1 ELSE 0)
             /\ \A k \in 1..Len(result) :
                    result[k][2] = get_longest_streak_for_given_habit(result[k][1]).value
             /\ non_increasing(result)

(***************************************************************************)
(* C18: completions of the last calendar month                             *)
(***************************************************************************)
\* The calendar month before the month of today, as <<year, month>>.
month_before(today) ==
    IF today.month = 1 THEN <<today.year - 1, 12>>
    ELSE <<today.year, today.month - 1>>

\* Rows of habit_name whose completion date is a day of that month.
completions_in_month_before(habit_name, today) ==
    { k \in completions_of(habit_name) :
        LET s == habit_completions[k].completion_date
        IN valid(s) /\ <<s[1], s[2]>> = month_before(today) }

\* C18: count_habit_completions_last_month returns exactly one pair (habit, n)
\* for each habit with at least one completion dated from the first to the
\* last day of the calendar month before today's month (December of the year
\* before when today is in January), n being the number of these completions;
\* a habit without one is absent from what is returned.
C18_CountLastMonth ==
    pc = "count_habit_completions_last_month" =>
        \A n \in NamePool :
            LET c == Cardinality(completions_in_month_before(n, arg))
            IN IF c = 0
                 THEN outcome = "list" => \A k \in 1..Len(result) : result[k][1] # n
               ELSE /\ outcome = "list"
                    /\ Cardinality({ k \in 1..Len(result) : result[k][1] = n }) = 1
                    /\ \E k \in 1..Len(result) : result[k] = <<n, c>>

\* C18 witness: today is in January, a habit has two completions in December
\* and the result holds the one pair for it.
C18_Witness ==
    /\ pc = "count_habit_completions_last_month"
    /\ arg.month = 1
    /\ outcome = "list"
    /\ \E n \in NamePool : result = << <<n, 2>> >>

(***************************************************************************)
(* C19, C20: the UNIQUE constraints of the two tables                      *)
(***************************************************************************)
record_of(pair) == [habit_name |-> pair[1], completion_date |-> pair[2]]

holds_record(table, pair) == \E k \in 1..Len(table) : table[k] = record_of(pair)

\* C19: the store never holds two completion records of one habit name and
\* completion date, and insert_tracking_record of a pair the store holds
\* raises nothing and leaves the records as they are.
C19_UniqueCompletions ==
    /\ [](\A j, k \in 1..Len(habit_completions) :
              (/\ habit_completions[j].habit_name = habit_completions[k].habit_name
               /\ habit_completions[j].completion_date
                      = habit_completions[k].completion_date) => j = k)
    /\ [][(pc' = "insert_tracking_record" /\ holds_record(habit_completions, arg'))
              => (habit_completions' = habit_completions /\ outcome' \in returned)]_vars

\* C19 witness: the pair just inserted is the first of two records, so it was
\* in the store before the call.
C19_Witness ==
    /\ pc = "insert_tracking_record"
    /\ Len(habit_completions) = 2
    /\ habit_completions[1] = record_of(arg)

\* C20: no two habits of the store have the same name, and insert_habit with
\* a name the store holds raises nothing and leaves the habit of that name,
\* its description, periodicity and creation date, as it is.
C20_UniqueNames ==
    /\ [](\A j, k \in 1..Len(habit) : habit[j].name = habit[k].name => j = k)
    /\ [][(pc' = "insert_habit" /\ has_row(arg'.name))
              => (habit' = habit /\ outcome' \in returned)]_vars

\* C20 witness: insert_habit was called with a name the store holds under
\* another description, periodicity and creation date.
C20_Witness ==
    /\ pc = "insert_habit"
    /\ \E k \in 1..Len(habit) :
           /\ habit[k].name = arg.name
           /\ habit[k].description # arg.description
           /\ habit[k].periodicity # arg.periodicity
           /\ habit[k].creation_date # arg.creation_date

(***************************************************************************)
(* C26, C29, C30: the calculators and the week predicates against each     *)
(* other                                                                   *)
(***************************************************************************)
\* C26: each of the four streak calculators returns 0 when a string of its
\* input names no calendar date, the weekly calculators as well as the daily
\* ones.
C26_ZeroOnInvalidDate ==
    (pc \in streak_calculators /\ ~all_valid(date_list)) => result = 0

strictly_descending(l) ==
    \A k \in 1..(Len(l) - 1) : ord_of(l[k]) > ord_of(l[k + 1])

\* C29: for a non-empty set of distinct valid dates and each periodicity, the
\* current streak of the dates in descending order is at most the longest
\* streak of the same dates in ascending order.
C29_CurrentAtMostLongest ==
    (/\ Len(date_list) >= 1 /\ all_valid(date_list)
     /\ strictly_descending(date_list))
        => /\ pc = "calculate_current_streak_for_daily_habit"
                  => result <= calculate_longest_streak_for_daily_habit(
                                   reversed(date_list))
           /\ pc = "calculate_current_streak_for_weekly_habit"
                  => result <= calculate_longest_streak_for_weekly_habit(
                                   reversed(date_list))

\* C29 witness: the weekly current streak is 2 and an older run makes the
\* longest streak greater.
C29_Witness ==
    /\ pc = "calculate_current_streak_for_weekly_habit"
    /\ Len(date_list) >= 5 /\ all_valid(date_list)
    /\ strictly_descending(date_list)
    /\ result = 2
    /\ calculate_longest_streak_for_weekly_habit(reversed(date_list)) > 2

\* C30: for two valid dates are_dates_in_consecutive_weeks and
\* are_in_same_week are never both true, and each returns the same with its
\* arguments swapped.
C30_ExclusiveSymmetric ==
    all_valid(<<date1, date2>>) =>
        /\ pc = "are_dates_in_consecutive_weeks"
               => /\ ~(result /\ truthy(are_in_same_week(date1, date2)))
                  /\ result = are_dates_in_consecutive_weeks(date2, date1)
        /\ pc = "are_in_same_week"
               => /\ ~(truthy(result) /\ are_dates_in_consecutive_weeks(date1, date2))
                  /\ result = are_in_same_week(date2, date1)

\* C30 witness: the later date came first, the dates lie in successive weeks
\* across the turn of a year, and the call returned true.
C30_Witness ==
    /\ pc = "are_dates_in_consecutive_weeks"
    /\ all_valid(<<date1, date2>>)
    /\ ord_of(date1) > ord_of(date2)
    /\ date1[1] # date2[1]
    /\ result = TRUE

(***************************************************************************)
(* C27: the foreign key of habit_completions                               *)
(***************************************************************************)
\* C27: every completion record's habit_name is the name of a habit of the
\* habit table: no record is stored for a habit that does not exist, and none
\* survives the deletion of its habit.
C27_ForeignKey ==
    \A k \in 1..Len(habit_completions) : has_row(habit_completions[k].habit_name)

(***************************************************************************)
(* C21: the reading operations change nothing and repeat their answers     *)
(***************************************************************************)
frame_operations ==
    { "get_current_streak_for_habit", "get_longest_streak_for_given_habit",
      "calculate_longest_run_streak_of_all_defined_habits",
      "find_struggling_habits_last_month",
      "sort_dates_descending", "sort_habits_by_count", "sort_habits_by_max_streak" }

\* The step leaves the two tables and the list arguments as they are.
frame_kept ==
    /\ habit' = habit
    /\ habit_completions' = habit_completions
    /\ date_list' = date_list
    /\ habit_completions_list' = habit_completions_list

\* The step is a second call of the operation that returned last, with the
\* same habit name where the operation takes one.
second_call ==
    /\ pc' = pc
    /\ pc \in {"get_current_streak_for_habit", "get_longest_streak_for_given_habit"}
           => arg' = arg

same_answer == outcome' = outcome /\ result' = result

\* C21 as stated: the streak and ranking operations leave the habits and the
\* completion records of the store and the list passed to them unchanged, and
\* a second call with the store unchanged returns what the first returned.
C21_FrameAndRepeat ==
    [][pc' \in frame_operations
           => (frame_kept /\ (second_call => same_answer))]_vars

\* C21 amended: the same, the second call of
\* find_struggling_habits_last_month being made in the calendar month of the
\* first.
C21_FrameAndRepeatSameMonth ==
    [][pc' \in frame_operations
           => /\ frame_kept
              /\ (/\ second_call
                  /\ pc = "find_struggling_habits_last_month"
                         => month_before(arg') = month_before(arg))
                     => same_answer]_vars

\* C21 witness: find_struggling_habits_last_month answered on the last day of
\* January with the December completions of a habit.
C21_Witness ==
    /\ pc = "find_struggling_habits_last_month"
    /\ arg = [year |-> 2025, month |-> 1, day |-> 31]
    /\ outcome = "list"
    /\ result = << <<"read", 2>> >>

(***************************************************************************)
(* UserInterface and main                                                  *)
(***************************************************************************)
periodicity_in(table, habit_name) ==
    LET rows == SelectSeq(table, LAMBDA row : row.name = habit_name)
    IN IF rows = <<>> THEN "None" ELSE rows[1].periodicity

creation_date_in(table, habit_name) ==
    LET rows == SelectSeq(table, LAMBDA row : row.name = habit_name)
    IN rows[1].creation_date

records_in(table, habit_name) ==
    SelectSeq(table, LAMBDA row : row.habit_name = habit_name)

\* C22: after remove_habit of the UserInterface is confirmed for a selected
\* habit, the store the UserInterface was constructed with has neither the
\* habit nor a tracking record of it; when the confirmation is declined, that
\* store is unchanged.
C22_RemoveHabit ==
    /\ []((/\ pc = "UserInterface.remove_habit"
            /\ arg.habit_name # "None"
            /\ arg.confirmation)
               => /\ periodicity_in(habit, arg.habit_name) = "None"
                  /\ records_in(habit_completions, arg.habit_name) = <<>>)
    /\ [][(/\ displaying_menu
            /\ pc' = "UserInterface.remove_habit"
            /\ ~arg'.confirmation)
               => UNCHANGED <<habit, habit_completions>>]_vars

\* C23: when modify_habit of the UserInterface gives a habit a periodicity
\* other than the stored one, the habit has the new periodicity afterwards and
\* no tracking record.
C23_ModifyPeriodicity ==
    [][(/\ displaying_menu
        /\ pc' = "UserInterface.modify_habit"
        /\ written' # "None"
        /\ arg'.periodicity # periodicity_in(habit, arg'.name))
          => /\ periodicity_in(habit', arg'.name) = arg'.periodicity
             /\ records_in(habit_completions', arg'.name) = <<>>]_vars

\* C24: the completion date add_tracking_record hands to the store is a date
\* on or after the creation date of the habit, and a date the habit has no
\* record of yet.
C24_CompletionDate ==
    [][(/\ displaying_menu
        /\ pc' = "UserInterface.add_tracking_record"
        /\ outcome' = "str")
          => /\ valid(result')
             /\ valid(creation_date_in(habit, arg'.habit_name))
             /\ ord_of(creation_date_in(habit, arg'.habit_name))
                    <= ord_of(result')
             /\ ~holds_record(habit_completions,
                              <<arg'.habit_name, result'>>)]_vars

\* C25: main hands the store it constructed to the UserInterface and runs it;
\* the store is open and close is not called while the UserInterface runs;
\* once run has ended, by SystemExit or by another exception, close is called,
\* once, and the connection is closed.
C25_MainClosesOnce ==
    /\ [](main_pc \in {"run", "finally", "done"} => habit_db = "main.db")
    /\ [](main_pc \in {"try", "run", "finally"}
              => connection = "open" /\ close_calls = 0)
    /\ [](main_pc = "run" => raised = "None")
    /\ [](main_pc = "done"
              => /\ raised \in {"SystemExit", "KeyboardInterrupt"}
                 /\ close_calls = 1
                 /\ connection = "None")
    /\ (main_pc = "finally" ~> main_pc = "done")

C25_Witness ==
    /\ main_pc = "done"
    /\ raised = "KeyboardInterrupt"
    /\ habit_db = "main.db"
    /\ close_calls = 1
    /\ connection = "None"

\* C28: add_habit, modify_habit and remove_habit of a UserInterface write a
\* habit through the store the UserInterface was constructed with, never
\* through another store.
C28_SameStore ==
    (/\ pc \in {"UserInterface.add_habit", "UserInterface.modify_habit",
                 "UserInterface.remove_habit"}
     /\ written # "None")
        => written = habit_db
====
